---- MODULE Spec2Model ----
(***************************************************************************)
(* Model of package exit (github.com/martinohmann/exit).                   *)
(*                                                                         *)
(* Go error values are pointers to heap objects.  The heap is a sequence   *)
(* of objects; an error value is an index into it, 0 being the nil error.  *)
(* An object records its dynamic type (kind), the exit code it carries if  *)
(* its type has an ExitCode method, and the errors its Unwrap method       *)
(* returns.  The caller owns one error variable, err, which the            *)
(* constructors of the package and of the standard library rewrite, and    *)
(* which Code inspects.                                                    *)
(***************************************************************************)
EXTENDS Integers, Sequences, FiniteSets

VARIABLES heap, err, errorHandlerFn, last

vars == <<heap, err, errorHandlerFn, last>>

\* ---- bounds ----

\* Largest number of error objects on the heap (the three package-level
\* error values of the standard libraries and the tests included).
MaxHeap == 5

\* Exit codes the caller passes to Error, Errorf, Errorp and to
\* execExitError.
Codes == {0, 3, 99}

\* ---- exit codes (codes.go) ----

CodeOK == 0

CodeErr == 1

CodeHelpErr == 2

CodeUsage == 64

CodeConfig == 78

\* ---- error values ----

\* The nil error.
Nil == 0

\* flag.ErrHelp, the help-requested sentinel of the standard flag package.
FlagErrHelp == 1

\* pflag.ErrHelp, the help-requested sentinel of github.com/spf13/pflag: a
\* value of its own, created by its own errors.New call.
PflagErrHelp == 2

\* errUntyped of the tests: errors.New("error").
errUntyped == 3

\* An object built by errors.New, or by fmt.Errorf without a usable %w.
ErrorString == [kind |-> "errorString", code |-> 0, inner |-> <<>>]

\* The heap before the program has built any error of its own.
InitHeap == <<ErrorString, ErrorString, ErrorString>>

\* Allocation: the new object gets the next free address.
Alloc(h, obj) == Append(h, obj)

\* ---- fmt.Errorf ----

\* The operands of the %w verbs that are errors: a *fmt.wrapErrors keeps
\* those and drops the nil operands.
Wrapped(args) == SelectSeq(args, LAMBDA a : a # Nil)

\* fmt.Errorf(format, args...) with one %w verb per element of args: the
\* object it builds.  The number of %w verbs decides its type: none gives a
\* plain error string, one gives a *fmt.wrapError around the operand, nil
\* or not, several give a *fmt.wrapErrors of the operands that are errors.
FmtErrorf(args) ==
    CASE Len(args) = 0 -> ErrorString
      [] Len(args) = 1 -> [kind |-> "wrapError", code |-> 0, inner |-> args]
      [] OTHER -> [kind |-> "wrapErrors", code |-> 0, inner |-> Wrapped(args)]

\* ---- the carrier (exit.go, type exitError) ----

\* &exitError{e, code}
exitError(e, code) == [kind |-> "exitError", code |-> code, inner |-> <<e>>]

\* TestProcessExitCodeHelper: the code the child process exits with when
\* its last argument is arg.  It starts from 1 and takes arg when arg is
\* not 0.
TestProcessExitCodeHelper(arg) == IF arg # 0 THEN arg ELSE 1

\* execExitError(code) of the tests: the *exec.ExitError of a child process
\* that ran TestProcessExitCodeHelper with code as its last argument.
execExitError(code) ==
    [kind |-> "execExitError", code |-> TestProcessExitCodeHelper(code),
     inner |-> <<>>]

\* (*exitError).Unwrap
Unwrap(h, e) == h[e].inner[1]

\* (*exitError).ExitCode, (*exec.ExitError).ExitCode
ExitCode(h, e) == h[e].code

\* The dynamic type of e implements the interface ExitError.
IsExitError(h, e) == h[e].kind \in {"exitError", "execExitError"}

\* ---- errors.Is and errors.As ----

RECURSIVE is(_, _, _)
\* errors.is: depth-first, pre-order walk of the tree under e, comparing
\* each error with target by identity.
is(h, e, target) ==
    IF e = target THEN TRUE
    ELSE CASE h[e].kind \in {"wrapError", "exitError"} ->
                  IF Unwrap(h, e) = Nil THEN FALSE
                  ELSE is(h, Unwrap(h, e), target)
           [] h[e].kind = "wrapErrors" ->
                  \E i \in 1..Len(h[e].inner) : is(h, h[e].inner[i], target)
           [] OTHER -> FALSE

\* errors.Is(e, target)
Is(h, e, target) ==
    IF e = Nil \/ target = Nil THEN e = target ELSE is(h, e, target)

RECURSIVE as(_, _)
RECURSIVE asFirst(_, _, _)
\* The first element of errs, from index i on, under which as finds an
\* ExitError; Nil when there is none.
asFirst(h, errs, i) ==
    IF i > Len(errs) THEN Nil
    ELSE IF as(h, errs[i]) # Nil THEN as(h, errs[i])
    ELSE asFirst(h, errs, i + 1)

\* errors.as with a target of type *ExitError: the first error of the
\* depth-first, pre-order walk whose type implements ExitError; Nil when
\* the walk finds none.
as(h, e) ==
    IF IsExitError(h, e) THEN e
    ELSE CASE h[e].kind = "wrapError" ->
                  IF Unwrap(h, e) = Nil THEN Nil ELSE as(h, Unwrap(h, e))
           [] h[e].kind = "wrapErrors" -> asFirst(h, h[e].inner, 1)
           [] OTHER -> Nil

RECURSIVE asInnermost(_, _)
\* A walk that prefers the ExitError nested deepest.
asInnermost(h, e) ==
    LET below == CASE h[e].kind \in {"wrapError", "exitError"} ->
                          IF Unwrap(h, e) = Nil THEN Nil
                          ELSE asInnermost(h, Unwrap(h, e))
                   [] h[e].kind = "wrapErrors" ->
                          asInnermost(h, h[e].inner[Len(h[e].inner)])
                   [] OTHER -> Nil
    IN  IF below # Nil THEN below
        ELSE IF IsExitError(h, e) THEN e ELSE Nil

\* As that prefers the innermost ExitError of the chain.
AsInnermost(h, e) == IF e = Nil THEN Nil ELSE asInnermost(h, e)

\* As replaced by a type assertion on the error itself, which does not
\* look into wrapped errors.
AsTopOnly(h, e) == IF e # Nil /\ IsExitError(h, e) THEN e ELSE Nil

\* errors.As(e, &exitErr): the value exitErr holds afterwards, Nil when As
\* returns false.
As(h, e) == IF e = Nil THEN Nil ELSE as(h, e)

\* ---- error handlers ----

NoHandler == "nil"

\* A handler that claims every error.
HandleAlways(h, e) == [code |-> CodeUsage, handled |-> TRUE]

\* A handler that claims no error but still returns a candidate code.
HandleNever(h, e) == [code |-> CodeConfig, handled |-> FALSE]

\* The handler of TestSetErrorHandler: one more than the code of the first
\* ExitError of the chain.
HandlePlusOne(h, e) ==
    IF As(h, e) # Nil
    THEN [code |-> ExitCode(h, As(h, e)) + 1, handled |-> TRUE]
    ELSE [code |-> 0, handled |-> FALSE]

Handlers == {"always", "never", "plusOne"}

\* errorHandlerFn(e) for the handler named fn.
CallHandler(h, fn, e) ==
    CASE fn = "always"  -> HandleAlways(h, e)
      [] fn = "never"   -> HandleNever(h, e)
      [] fn = "plusOne" -> HandlePlusOne(h, e)

\* ---- Code ----

\* The switch with the ExitError case ahead of the flag.ErrHelp case.
BuiltinExitErrorFirst(h, e) ==
    CASE e = Nil                -> CodeOK
      [] As(h, e) # Nil         -> ExitCode(h, As(h, e))
      [] Is(h, e, FlagErrHelp)  -> CodeHelpErr
      [] OTHER                  -> CodeErr

\* The switch with a default case that reports success.
BuiltinDefaultOK(h, e) ==
    CASE e = Nil                -> CodeOK
      [] Is(h, e, FlagErrHelp)  -> CodeHelpErr
      [] As(h, e) # Nil         -> ExitCode(h, As(h, e))
      [] OTHER                  -> CodeOK

\* The switch of Code: the builtin rules.
Builtin(h, e) ==
    CASE e = Nil                -> CodeOK
      [] Is(h, e, FlagErrHelp)  -> CodeHelpErr
      [] As(h, e) # Nil         -> ExitCode(h, As(h, e))
      [] OTHER                  -> CodeErr

\* The guard without its err != nil conjunct.
ConsultsHandlerForNil(fn, e) == fn # NoHandler

\* The handler is consulted for a non-nil error when one is installed.
ConsultsHandler(fn, e) == e # Nil /\ fn # NoHandler

\* Code with the builtin rules ahead of the handler: the handler is only
\* asked about errors the builtin rules have nothing to say about.
CodeBuiltinFirst(h, fn, e) ==
    IF ConsultsHandler(fn, e) /\ Builtin(h, e) = CodeErr
    THEN [code  |-> IF CallHandler(h, fn, e).handled
                    THEN CallHandler(h, fn, e).code
                    ELSE Builtin(h, e),
          calls |-> <<e>>]
    ELSE [code |-> Builtin(h, e), calls |-> <<>>]

\* Code that returns the handler's code without looking at handled.
CodeIgnoresHandled(h, fn, e) ==
    IF ConsultsHandler(fn, e)
    THEN [code |-> CallHandler(h, fn, e).code, calls |-> <<e>>]
    ELSE [code |-> Builtin(h, e), calls |-> <<>>]

\* Code(e) with handler fn installed: the code returned and the errors the
\* handler was invoked with.
Code(h, fn, e) ==
    IF ConsultsHandler(fn, e)
    THEN [code  |-> IF CallHandler(h, fn, e).handled
                    THEN CallHandler(h, fn, e).code
                    ELSE Builtin(h, e),
          calls |-> <<e>>]
    ELSE [code |-> Builtin(h, e), calls |-> <<>>]

\* ---- Exit ----

\* Exit that takes the exit code from the builtin rules and leaves the
\* handler out.
ExitSkipsHandler(h, fn, e) ==
    [exits |-> <<Builtin(h, e)>>, calls |-> <<>>]

\* Exit(e) with handler fn installed and osExit replaced by a function
\* that records its argument and returns, as the tests do: the codes osExit
\* was invoked with, in order, and the errors the handler was invoked with.
Exit(h, fn, e) ==
    [exits |-> <<Code(h, fn, e).code>>, calls |-> Code(h, fn, e).calls]

\* ---- constructors ----

\* Error without the nil check.
ErrorWrapsNil(h, code, e) ==
    [heap |-> Alloc(h, exitError(e, code)), err |-> Len(h) + 1]

\* Error that returns an error that already is a carrier as it is.
ErrorKeepsCarrier(h, code, e) ==
    IF e = Nil \/ h[e].kind = "exitError" THEN [heap |-> h, err |-> e]
    ELSE [heap |-> Alloc(h, exitError(e, code)), err |-> Len(h) + 1]

\* Error(code, e): the heap and the error returned.
Error(h, code, e) ==
    IF e = Nil THEN [heap |-> h, err |-> Nil]
    ELSE [heap |-> Alloc(h, exitError(e, code)), err |-> Len(h) + 1]

\* Errorf(code, format, args...): fmt.Errorf allocates the wrapped error,
\* then the carrier is allocated around it.
Errorf(h, code, args) ==
    LET h1 == Alloc(h, FmtErrorf(args))
    IN  [heap |-> Alloc(h1, exitError(Len(h1), code)), err |-> Len(h1) + 1]

\* ---- state machine ----

\* The record of the last call: the operation, the code and the error it
\* was given, the code it returned and the errors the handler was invoked
\* with (for Code and Exit), and the codes osExit was invoked with (for
\* Exit).
Call(name, code, e) ==
    [op |-> name, code |-> code, arg |-> e, ret |-> 0, calls |-> <<>>,
     exits |-> <<>>]

TypeOK ==
    /\ Len(heap) \in 3..MaxHeap
    /\ err \in 0..Len(heap)
    /\ errorHandlerFn \in Handlers \cup {NoHandler}

Init ==
    /\ heap = InitHeap
    /\ err = Nil
    /\ errorHandlerFn = NoHandler
    /\ last = Call("init", 0, Nil)

\* err = v, for one of the package-level error values or nil.
Assign(v) ==
    /\ err' = v
    /\ last' = Call("Assign", 0, Nil)
    /\ UNCHANGED <<heap, errorHandlerFn>>

\* err = execExitError(c): a child process is run with c as its last
\* argument and fails.
ExecExit(c) ==
    /\ Len(heap) + 1 <= MaxHeap
    /\ heap' = Alloc(heap, execExitError(c))
    /\ err' = Len(heap) + 1
    /\ last' = Call("ExecExit", c, Nil)
    /\ UNCHANGED errorHandlerFn

\* err = wrapErr(err), that is fmt.Errorf("wrapped: %w", err).
WrapErr ==
    /\ Len(heap) + 1 <= MaxHeap
    /\ heap' = Alloc(heap, FmtErrorf(<<err>>))
    /\ err' = Len(heap) + 1
    /\ last' = Call("WrapErr", 0, err)
    /\ UNCHANGED errorHandlerFn

\* err = fmt.Errorf("%w: %w", a, b) with the caller's error and one of the
\* package-level error values, in either order.
WrapBoth(v, first) ==
    /\ Len(heap) + 1 <= MaxHeap
    /\ heap' = Alloc(heap, FmtErrorf(IF first THEN <<v, err>> ELSE <<err, v>>))
    /\ err' = Len(heap) + 1
    /\ last' = Call("WrapBoth", 0, err)
    /\ UNCHANGED errorHandlerFn

\* err = Error(c, err)
DoError(c) ==
    /\ Len(heap) + 1 <= MaxHeap
    /\ heap' = Error(heap, c, err).heap
    /\ err' = Error(heap, c, err).err
    /\ last' = Call("Error", c, err)
    /\ UNCHANGED errorHandlerFn

\* err = Errorf(c, "...: %w", err) when wrap, err = Errorf(c, "...") when not.
DoErrorf(c, wrap) ==
    /\ Len(heap) + 2 <= MaxHeap
    /\ heap' = Errorf(heap, c, IF wrap THEN <<err>> ELSE <<>>).heap
    /\ err' = Errorf(heap, c, IF wrap THEN <<err>> ELSE <<>>).err
    /\ last' = Call("Errorf", c, IF wrap THEN err ELSE Nil)
    /\ UNCHANGED errorHandlerFn

\* Errorp(c, &err): *err = Error(c, *err)
Errorp(c) ==
    /\ Len(heap) + 1 <= MaxHeap
    /\ heap' = Error(heap, c, err).heap
    /\ err' = Error(heap, c, err).err
    /\ last' = Call("Errorp", c, err)
    /\ UNCHANGED errorHandlerFn

\* SetErrorHandler(fn)
SetErrorHandler(fn) ==
    /\ errorHandlerFn' = fn
    /\ last' = Call("SetErrorHandler", 0, Nil)
    /\ UNCHANGED <<heap, err>>

\* Code(err)
DoCode ==
    /\ last' = [Call("Code", 0, err) EXCEPT
                   !.ret = Code(heap, errorHandlerFn, err).code,
                   !.calls = Code(heap, errorHandlerFn, err).calls]
    /\ UNCHANGED <<heap, err, errorHandlerFn>>

\* Exit(err)
DoExit ==
    /\ last' = [Call("Exit", 0, err) EXCEPT
                   !.exits = Exit(heap, errorHandlerFn, err).exits,
                   !.calls = Exit(heap, errorHandlerFn, err).calls]
    /\ UNCHANGED <<heap, err, errorHandlerFn>>

Next ==
    \/ \E v \in {Nil, FlagErrHelp, PflagErrHelp, errUntyped} : Assign(v)
    \/ \E c \in Codes : ExecExit(c)
    \/ WrapErr
    \/ \E v \in {FlagErrHelp, PflagErrHelp, errUntyped}, first \in BOOLEAN :
           WrapBoth(v, first)
    \/ \E c \in Codes : DoError(c)
    \/ \E c \in Codes, wrap \in BOOLEAN : DoErrorf(c, wrap)
    \/ \E c \in Codes : Errorp(c)
    \/ \E fn \in Handlers \cup {NoHandler} : SetErrorHandler(fn)
    \/ DoCode
    \/ DoExit

Spec == Init /\ [][Next]_vars

\* ---- properties ----

RECURSIVE Reach(_, _)
\* The links of the chain of e: e and every error reachable from it by
\* unwrapping.
Reach(h, e) ==
    IF e = Nil THEN {}
    ELSE {e} \cup UNION {Reach(h, h[e].inner[i]) : i \in 1..Len(h[e].inner)}

\* The links of the chain of e that expose an exit code.
Carriers(h, e) == {r \in Reach(h, e) : IsExitError(h, r)}

\* The links of the chain of e that expose an exit code and have every
\* other such link nested inside them.
Outermost(h, e) ==
    {r \in Carriers(h, e) : \A s \in Carriers(h, e) : s \in Reach(h, r)}

RECURSIVE Peel(_, _)
\* The error under the plain fmt.Errorf("...%w", e) layers around it.
Peel(h, e) ==
    IF h[e].kind = "wrapError" /\ Unwrap(h, e) # Nil
    THEN Peel(h, Unwrap(h, e))
    ELSE e

\* The last call was Code.
Coded == last.op = "Code"

\* The last call was Code and no handler decided its result: the error was
\* nil, no handler was installed, or the handler returned handled = false.
Unhandled ==
    /\ Coded
    /\ \/ err = Nil
       \/ errorHandlerFn = NoHandler
       \/ ~CallHandler(heap, errorHandlerFn, err).handled

\* Every object wraps objects allocated before it, so every chain is
\* finite and acyclic.
HeapOK ==
    \A r \in 1..Len(heap) : \A i \in 1..Len(heap[r].inner) : heap[r].inner[i] < r

\* C1: Code of a nil error is 0 whatever the handler slot holds, and the
\* handler is never invoked with a nil error.
C1_NilIsOK ==
    /\ (Coded /\ err = Nil) => (last.ret = CodeOK /\ last.calls = <<>>)
    /\ \A i \in 1..Len(last.calls) : last.calls[i] # Nil

C1_Witness ==
    /\ Coded
    /\ err = Nil
    /\ errorHandlerFn = "always"
    /\ last.ret = CodeOK

\* C2: when the installed handler returns (x, true) for a non-nil error,
\* Code returns x, whatever the chain of the error holds.
C2_HandledWins ==
    (/\ Coded
     /\ err # Nil
     /\ errorHandlerFn # NoHandler
     /\ CallHandler(heap, errorHandlerFn, err).handled)
        => /\ last.ret = CallHandler(heap, errorHandlerFn, err).code
           /\ last.calls = <<err>>

\* A handled error that is a carrier around the help sentinel: the builtin
\* rules have two answers for it and neither is returned.
C2_Witness ==
    /\ Coded
    /\ errorHandlerFn = "always"
    /\ err # Nil
    /\ heap[err].kind = "exitError"
    /\ heap[err].code = 99
    /\ FlagErrHelp \in Reach(heap, err)
    /\ last.ret = CodeUsage

\* C3: when the handler slot is empty or the handler returns
\* handled = false, Code returns what the builtin rules give and the
\* candidate code of the handler is not used.
C3_UnhandledIsBuiltin ==
    Unhandled => last.ret = Builtin(heap, err)

C3_Witness ==
    /\ Coded
    /\ errorHandlerFn = "never"
    /\ Carriers(heap, err) # {}
    /\ last.calls = <<err>>
    /\ last.ret # CodeConfig

\* C4: with no handler handling the error, a chain that contains
\* flag.ErrHelp anywhere gives 2, also when links of the chain expose an
\* exit code.
C4_HelpFirst ==
    (Unhandled /\ FlagErrHelp \in Reach(heap, err)) => last.ret = CodeHelpErr

\* fmt.Errorf("%w: %w", flag.ErrHelp, carrier): the help sentinel sits next
\* to a carrier with code 99 under one wrapper.
C4_Witness ==
    /\ Unhandled
    /\ err # Nil
    /\ heap[err].kind = "wrapErrors"
    /\ Len(heap[err].inner) = 2
    /\ heap[err].inner[1] = FlagErrHelp
    /\ heap[heap[err].inner[2]].kind = "exitError"
    /\ heap[heap[err].inner[2]].code = 99
    /\ last.ret = CodeHelpErr

\* C5 as stated: with no handler installed, Code gives c for a carrier with
\* code c around any non-nil error, also under plain wrapping layers.
C5_AsStated ==
    (/\ Coded
     /\ errorHandlerFn = NoHandler
     /\ err # Nil
     /\ heap[Peel(heap, err)].kind = "exitError")
        => last.ret = heap[Peel(heap, err)].code

\* C5, amended: with no handler installed, Code gives c for a carrier with
\* code c around a non-nil error whose chain does not contain flag.ErrHelp,
\* also under plain wrapping layers.
C5_CarrierCode ==
    (/\ Coded
     /\ errorHandlerFn = NoHandler
     /\ err # Nil
     /\ heap[Peel(heap, err)].kind = "exitError"
     /\ FlagErrHelp \notin Reach(heap, err))
        => last.ret = heap[Peel(heap, err)].code

C5_Witness ==
    /\ Coded
    /\ errorHandlerFn = NoHandler
    /\ err # Nil
    /\ heap[err].kind = "wrapError"
    /\ heap[Peel(heap, err)].kind = "exitError"
    /\ heap[Peel(heap, err)].code = 99
    /\ last.ret = 99

\* C6: with no handler handling the error and no help sentinel in the
\* chain, Code returns the code of the outermost link that exposes an exit
\* code.
C6_OutermostWins ==
    (/\ Unhandled
     /\ FlagErrHelp \notin Reach(heap, err)
     /\ PflagErrHelp \notin Reach(heap, err)
     /\ Carriers(heap, err) # {})
        => \E r \in Outermost(heap, err) : last.ret = heap[r].code

\* A carrier around the error of a child process that reports another code.
C6_Witness ==
    /\ Unhandled
    /\ \E r \in Outermost(heap, err) :
          /\ heap[r].kind = "exitError"
          /\ \E s \in Carriers(heap, err) :
                /\ heap[s].kind = "execExitError"
                /\ heap[s].code # heap[r].code
          /\ last.ret = heap[r].code

\* C7: Error(c, nil) is nil; Error(c, e) for a non-nil e is a new carrier
\* with code c that unwraps to e; no carrier wraps nil; no object changes
\* once built.
C7_Construct ==
    [][/\ last'.op \in {"Error", "Errorp"} =>
             IF err = Nil
             THEN err' = Nil /\ heap' = heap
             ELSE /\ err' = Len(heap) + 1
                  /\ Len(heap') = Len(heap) + 1
                  /\ heap'[err'].kind = "exitError"
                  /\ ExitCode(heap', err') = last'.code
                  /\ Unwrap(heap', err') = err
       /\ \A r \in 1..Len(heap) : r <= Len(heap') /\ heap'[r] = heap[r]
       /\ \A r \in 1..Len(heap') :
             heap'[r].kind = "exitError" => Unwrap(heap', r) # Nil]_vars

C7_Witness ==
    /\ last.op = "Error"
    /\ last.arg # Nil
    /\ heap[err].kind = "exitError"
    /\ Unwrap(heap, err) = last.arg
    /\ heap[last.arg].kind = "exitError"
    /\ ExitCode(heap, err) = last.code

\* C8 as stated: after Errorp(c, &slot) a nil slot is nil, and a slot that
\* held a non-nil e is a carrier around e with code c for which Code gives c.
C8_AsStated ==
    last.op = "Errorp" =>
        IF last.arg = Nil THEN err = Nil
        ELSE /\ heap[err].kind = "exitError"
             /\ Unwrap(heap, err) = last.arg
             /\ ExitCode(heap, err) = last.code
             /\ Code(heap, NoHandler, err).code = last.code

\* C8, amended: after Errorp(c, &slot) a nil slot is nil, and a slot that
\* held a non-nil e is a carrier around e with code c; Code gives c for it
\* when the chain of e does not contain flag.ErrHelp.
C8_Errorp ==
    last.op = "Errorp" =>
        IF last.arg = Nil THEN err = Nil
        ELSE /\ heap[err].kind = "exitError"
             /\ Unwrap(heap, err) = last.arg
             /\ ExitCode(heap, err) = last.code
             /\ FlagErrHelp \notin Reach(heap, last.arg) =>
                    Code(heap, NoHandler, err).code = last.code

\* The slot held a carrier with another code.
C8_Witness ==
    /\ last.op = "Errorp"
    /\ last.arg # Nil
    /\ heap[last.arg].kind = "exitError"
    /\ heap[last.arg].code # last.code
    /\ Code(heap, NoHandler, err).code = last.code

\* C9: Code gives 2 for a chain that contains flag.ErrHelp and for a chain
\* that contains pflag.ErrHelp, at any depth.
C9_BothSentinels ==
    (/\ Unhandled
     /\ \/ FlagErrHelp \in Reach(heap, err)
        \/ PflagErrHelp \in Reach(heap, err))
        => last.ret = CodeHelpErr

\* C10: Code returns an integer for every chain, and with no handler
\* installed it returns 1 for a non-nil error whose chain has no help
\* sentinel and no link that exposes an exit code.
C10_Total ==
    /\ HeapOK
    /\ Coded =>
          /\ last.ret \in Int
          /\ (/\ errorHandlerFn = NoHandler
              /\ err # Nil
              /\ FlagErrHelp \notin Reach(heap, err)
              /\ PflagErrHelp \notin Reach(heap, err)
              /\ Carriers(heap, err) = {})
                 => last.ret = CodeErr

\* Two plain layers around an error without any capability.
C10_Witness ==
    /\ Coded
    /\ errorHandlerFn = NoHandler
    /\ err # Nil
    /\ heap[err].kind = "wrapError"
    /\ Unwrap(heap, err) # Nil
    /\ heap[Unwrap(heap, err)].kind = "wrapError"
    /\ Carriers(heap, err) = {}
    /\ last.ret = CodeErr

\* C11: Exit(err) invokes osExit exactly once, with the code Code gives for
\* the same error and handler, which is 0 for a nil error; no other call
\* invokes osExit; Exit and Code leave the handler slot, the caller's error
\* and every object of the heap as they were.
C11_ExitOnce ==
    [][/\ last'.op = "Exit" =>
             /\ Len(last'.exits) = 1
             /\ last'.exits[1] = Code(heap, errorHandlerFn, err).code
             /\ err = Nil => last'.exits[1] = CodeOK
       /\ last'.op # "Exit" => last'.exits = <<>>
       /\ last'.op \in {"Exit", "Code"} =>
             /\ errorHandlerFn' = errorHandlerFn
             /\ err' = err
             /\ heap' = heap]_vars

\* Exit of a carrier under the handler of TestSetErrorHandler: osExit gets
\* the code of the carrier plus one.
C11_Witness ==
    /\ last.op = "Exit"
    /\ errorHandlerFn = "plusOne"
    /\ err # Nil
    /\ heap[err].kind = "exitError"
    /\ heap[err].code = 99
    /\ last.calls = <<err>>
    /\ last.exits = <<100>>

====
